---- MODULE Spec2Model ----
(***************************************************************************)
(* A model of fabazon: the EC2 role resolver (fabazon/roles.py), the EC2   *)
(* tag manager it queries (fabazon/ec2.py) and the load balancer wait      *)
(* loops (fabazon/elb.py).                                                 *)
(*                                                                         *)
(* Python values are modelled as follows.  A dict is a function whose      *)
(* DOMAIN is the set of its keys.  A list is a sequence.  A call either    *)
(* returns or raises; the name of the exception class is kept as a string. *)
(* boto3 (describe_instances, describe_target_health) is the environment:  *)
(* each call returns any response of the bounded response sets, or raises. *)
(***************************************************************************)
EXTENDS Integers, Sequences, FiniteSets, TLC

(***************************************************************************)
(* Bounds                                                                  *)
(***************************************************************************)
\* Number of __getitem__ calls made on one resolver.
MaxLookups == 2
\* Number of instances in one describe_instances response.
MaxInstances == 1
\* Number of entries of TargetHealthDescriptions in one response.
MaxDescriptions == 2

SeqsUpTo(S, n) == UNION {[1..k -> S] : k \in 0..n}

EmptyDict == [x \in {} |-> ""]

(***************************************************************************)
(* Input domains                                                           *)
(***************************************************************************)
RoleNames == {"web", "db"}
RoleLists == {<<"web">>, <<"web", "db">>, <<"db", "db">>}
RegionLists == {<<"us-east-1">>, <<"us-east-1", "us-west-2">>,
                <<"us-east-1", "us-east-1">>}
RoleTags == {"role", "env"}
RequireTagsSet == {EmptyDict, ("env" :> "prod"), ("role" :> "db")}

\* instance['State']['Name'] of a described instance.
StateNames == {"running", "stopped"}
\* instance.get('PublicDnsName'): NoDns stands for a missing key.
NoDns == "<missing>"
DnsNames == {NoDns, "", "h1", "h2"}
Instances == [State : StateNames, PublicDnsName : DnsNames]
\* One describe_instances response: the instances of its reservations, in
\* the order the two nested loops of get_tagged_hostnames visit them.
Responses == SeqsUpTo(Instances, MaxInstances)
\* What one describe_instances call does: it returns or it raises.
Raises == [raises |-> TRUE, rsp |-> <<>>]
Returns(rsp) == [raises |-> FALSE, rsp |-> rsp]
CallOutcomes == {Raises} \cup {Returns(rsp) : rsp \in Responses}

(***************************************************************************)
(* fabazon/ec2.py: EC2TagManager                                           *)
(***************************************************************************)
\* The methods class EC2TagManager defines besides __init__.
EC2TagManagerMethods == {"get_tagged_hostnames"}

RECURSIVE Dedup(_)
\* The keys of the dict region_cnx, in insertion order: __init__ assigns
\* region_cnx[region] for each region of the list, so a repeated region
\* keeps its first position and one connection.
Dedup(s) ==
    IF s = <<>> THEN <<>>
    ELSE LET init == Dedup(SubSeq(s, 1, Len(s) - 1))
             last == s[Len(s)]
         IN IF \E i \in 1..Len(init) : init[i] = last
            THEN init
            ELSE Append(init, last)

region_cnx(regionList) == Dedup(regionList)

\* The Filters argument built from the tags dict (one entry per key).
tag_filter(tags) ==
    {[Name |-> <<"tag:", key>>, Values |-> <<tags[key]>>] :
        key \in DOMAIN tags}

\* The test that guards hostnames.append(dns_name).
Matches(instance, running_only) ==
    /\ (~running_only \/ instance.State = "running")
    /\ instance.PublicDnsName # NoDns
    /\ instance.PublicDnsName # ""

RECURSIVE ReservationHostnames(_, _)
\* The loops over response['Reservations'] and reservation['Instances'].
ReservationHostnames(rsp, running_only) ==
    IF rsp = <<>> THEN <<>>
    ELSE LET instance == Head(rsp)
             rest == ReservationHostnames(Tail(rsp), running_only)
         IN IF Matches(instance, running_only)
            THEN <<instance.PublicDnsName>> \o rest
            ELSE rest

RECURSIVE RegionHostnamesReversed(_, _)
\* A changed RegionHostnames: each region's hostnames are put in front of
\* the list instead of appended to it.
RegionHostnamesReversed(calls, running_only) ==
    IF calls = <<>> THEN <<>>
    ELSE RegionHostnamesReversed(Tail(calls), running_only)
         \o ReservationHostnames(Head(calls).rsp, running_only)

RECURSIVE RegionHostnames(_, _)
\* The loop over region_cnx.values(); calls[i] is the outcome of the
\* describe_instances call on the i-th connection.
RegionHostnames(calls, running_only) ==
    IF calls = <<>> THEN <<>>
    ELSE ReservationHostnames(Head(calls).rsp, running_only)
         \o RegionHostnames(Tail(calls), running_only)

\* A changed get_tagged_hostnames: an exception of describe_instances is
\* caught and the region skipped.
GetTaggedHostnamesSkippingErrors(calls, running_only) ==
    [raises |-> FALSE, hostnames |-> RegionHostnames(calls, running_only)]

\* get_tagged_hostnames: an exception of any describe_instances call
\* propagates, otherwise the hostnames of all regions are returned.
get_tagged_hostnames(calls, running_only) ==
    IF \E i \in 1..Len(calls) : calls[i].raises
    THEN [raises |-> TRUE, hostnames |-> <<>>]
    ELSE [raises |-> FALSE,
          hostnames |-> RegionHostnames(calls, running_only)]

\* The region names of a list.
RegionNames(regionList) == {regionList[j] : j \in 1..Len(regionList)}

\* The hostnames a region reports for the instances the caller asked for:
\* those with a public DNS name and, with running_only, running.
MatchingHostnames(rsp, running_only) ==
    LET wanted == SelectSeq(rsp, LAMBDA inst :
                      /\ inst.PublicDnsName \notin {NoDns, ""}
                      /\ running_only => inst.State = "running")
    IN [j \in 1..Len(wanted) |-> wanted[j].PublicDnsName]

\* What a get_tagged_hostnames call can do on the connections of a region
\* list: for every choice env of what describe_instances does in each
\* region, the call's result, with what the environment did (raised: some
\* region raised; matches: each region's matching hostnames).
TagQueryResults[regionList \in RegionLists, running_only \in BOOLEAN] ==
    LET cnx == region_cnx(regionList)
        raised(env) == \E rg \in DOMAIN env : env[rg].raises
    IN {[raised |-> raised(env),
         matches |-> [rg \in DOMAIN env |->
                        IF raised(env) THEN <<>>
                        ELSE MatchingHostnames(env[rg].rsp, running_only)],
         result |-> get_tagged_hostnames(
                        [j \in 1..Len(cnx) |-> env[cnx[j]]], running_only)] :
        env \in [RegionNames(regionList) -> CallOutcomes]}

(***************************************************************************)
(* fabazon/roles.py: EC2RoleDefs                                           *)
(***************************************************************************)
VARIABLES
    regions,        \* tag_manager.regions
    roles,          \* self.roles
    role_tag,       \* self.role_tag
    require_tags,   \* self.require_tags
    use_ssm,        \* self.use_ssm
    cache,          \* the dict itself: role -> None or list of hosts
    lookups,        \* history: __getitem__ calls so far, per role name
    queries,        \* history: tag manager calls started, per role name
    outcome,        \* how the latest __getitem__ call ended
    query           \* history: the tag manager call of the latest
                    \* __getitem__, the Filters it gave to boto3 and
                    \* whether boto3 raised

roleVars == <<regions, roles, role_tag, require_tags, use_ssm, cache,
              lookups, queries, outcome, query>>

VARIABLES
    lb_op,          \* the load balancer method being called
    lb_pc,          \* where that call is: idle, poll, sleep, timeout, done
    instance,       \* instance.id of the call's argument
    i,              \* the loop variable of the wait loops
    polls,          \* history: describe_target_health calls of this call
    sleeps,         \* history: time.sleep(1) calls of this call
    slept,          \* history: the seconds this call has slept
    warnings,       \* history: warnings printed by this call
    trues,          \* history: is_instance_* calls that returned True
    falses,         \* history: is_instance_* calls that returned False
    seen,           \* history: the response the call is looking at
    lb_result,      \* what the call returned or raised
    target_group_arn,   \* self.target_group_arn
    targets,        \* the instances registered in the target group at AWS
    sent,           \* history: boto3 requests of this call, per operation
    last_request    \* history: the latest boto3 request of this call

lbVars == <<lb_op, lb_pc, instance, i, polls, sleeps, slept, warnings,
            trues, falses, seen, lb_result, target_group_arn, targets, sent,
            last_request>>

VARIABLES
    tm_call         \* a direct call of EC2TagManager.get_tagged_hostnames

tagVars == <<tm_call>>

VARIABLES
    id_call         \* a call of get_current_instance_id or of
                    \* EC2Instance.for_current_host

idVars == <<id_call>>

vars == <<roleVars, lbVars, tagVars, idVars>>

\* A dict value: Python's None, or a list of hosts.
None == [resolved |-> FALSE, hosts |-> <<>>]
Resolved(hosts) == [resolved |-> TRUE, hosts |-> hosts]

NoOutcome == [kind |-> "none", role |-> "", value |-> None]
NoQuery ==
    [issued |-> FALSE, method |-> "", tags |-> EmptyDict, Filters |-> {},
     raised |-> FALSE]

NoCall ==
    [called |-> FALSE, running_only |-> FALSE, tags |-> EmptyDict,
     Filters |-> {}, raised |-> FALSE,
     matches |-> <<>>, raises |-> FALSE, hostnames |-> <<>>]

\* EC2RoleDefs.__init__
Construct(regionList, roleList, tag, required, ssm) ==
    /\ regions = regionList
    /\ roles = roleList
    /\ role_tag = tag
    /\ require_tags = required
    /\ use_ssm = ssm
    /\ cache = [r \in {roleList[j] : j \in 1..Len(roleList)} |-> None]
    /\ lookups = [r \in RoleNames |-> 0]
    /\ queries = [r \in RoleNames |-> 0]
    /\ outcome = NoOutcome
    /\ query = NoQuery

RolesInit ==
    \E regionList \in RegionLists, roleList \in RoleLists, tag \in RoleTags,
       required \in RequireTagsSet, ssm \in BOOLEAN :
        Construct(regionList, roleList, tag, required, ssm)

\* tags = {role_tag: role}; tags.update(require_tags)
BuildTags(tag, role, required) == required @@ (tag :> role)

\* The method __getitem__ calls on the tag manager.
LookupMethod(ssm) ==
    IF ssm THEN "get_tagged_instance_ids" ELSE "get_tagged_hostnames"

\* A changed SuperGetItem: the lookup of dict.get(role), which answers None
\* for a missing key instead of raising KeyError.
SuperGetItemDefault(c, role) ==
    [found |-> TRUE, value |-> IF role \in DOMAIN c THEN c[role] ELSE None]

\* super().__getitem__(role): dict lookup, KeyError for a missing key.
SuperGetItem(c, role) ==
    IF role \in DOMAIN c
    THEN [found |-> TRUE, value |-> c[role]]
    ELSE [found |-> FALSE, value |-> None]

\* A changed IsNone: the test "not result", true of an empty list too.
IsNoneOrEmpty(result) == result = None \/ result.hosts = <<>>

\* The test "result is None".
IsNone(result) == result = None

\* A changed SetItem: every entry of the dict is assigned.
SetItemEveryKey(c, role, result) ==
    [r \in DOMAIN c \cup {role} |-> result]

\* self[role] = result: dict assignment, which adds a missing key.
SetItem(c, role, result) ==
    [r \in DOMAIN c \cup {role} |-> IF r = role THEN result ELSE c[r]]

RECURSIVE SumOver(_, _)
SumOver(f, S) ==
    IF S = {} THEN 0
    ELSE LET x == CHOOSE y \in S : TRUE
         IN f[x] + SumOver(f, S \ {x})

TotalLookups == SumOver(lookups, RoleNames)

\* EC2RoleDefs.__getitem__(role)
GetItem(role) ==
    /\ TotalLookups < MaxLookups
    /\ lookups' = [lookups EXCEPT ![role] = @ + 1]
    /\ UNCHANGED <<regions, roles, role_tag, require_tags, use_ssm>>
    /\ UNCHANGED <<lbVars, tagVars, idVars>>
    /\ LET got == SuperGetItem(cache, role)
           tags == BuildTags(role_tag, role, require_tags)
           method == LookupMethod(use_ssm)
       IN IF ~got.found
          THEN \* super().__getitem__ raised KeyError
               /\ outcome' = [kind |-> "KeyError", role |-> role,
                              value |-> None]
               /\ query' = NoQuery
               /\ UNCHANGED <<cache, queries>>
          ELSE IF ~IsNone(got.value)
          THEN /\ outcome' = [kind |-> "return", role |-> role,
                              value |-> got.value]
               /\ query' = NoQuery
               /\ UNCHANGED <<cache, queries>>
          ELSE IF method \notin EC2TagManagerMethods
          THEN \* the attribute lookup on the tag manager fails
               /\ outcome' = [kind |-> "AttributeError", role |-> role,
                              value |-> None]
               /\ query' = NoQuery
               /\ UNCHANGED <<cache, queries>>
          ELSE \E did \in TagQueryResults[regions, TRUE] :
                 LET filters == tag_filter(tags)
                     result == did.result
                 IN /\ query' = [issued |-> TRUE, method |-> method,
                                 tags |-> tags,
                                 Filters |-> filters,
                                 raised |-> did.raised]
                    /\ queries' = [queries EXCEPT ![role] = @ + 1]
                    /\ IF result.raises
                       THEN /\ outcome' = [kind |-> "ClientError",
                                           role |-> role, value |-> None]
                            /\ UNCHANGED cache
                       ELSE /\ cache' = SetItem(cache, role,
                                                Resolved(result.hostnames))
                            /\ outcome' =
                                 [kind |-> "return", role |-> role,
                                  value |-> Resolved(result.hostnames)]

RolesNext == \E role \in RoleNames : GetItem(role)

\* EC2TagManager.get_tagged_hostnames called directly on the tag manager
\* of the resolver, with the caller's tags and running_only.
GetTaggedHostnames(running_only, tags) ==
    /\ ~tm_call.called
    /\ \E did \in TagQueryResults[regions, running_only] :
         tm_call' = [called |-> TRUE, running_only |-> running_only,
                     tags |-> tags, Filters |-> tag_filter(tags),
                     raised |-> did.raised, matches |-> did.matches,
                     raises |-> did.result.raises,
                     hostnames |-> did.result.hostnames]
    /\ UNCHANGED <<roleVars, lbVars, idVars>>

TagsNext ==
    \E running_only \in BOOLEAN, tags \in RequireTagsSet :
        GetTaggedHostnames(running_only, tags)

(***************************************************************************)
(* fabazon/ec2.py: get_current_instance_id and EC2Instance.for_current_host *)
(*                                                                         *)
(* A Python string is the sequence of its characters.                      *)
(***************************************************************************)
\* The longest text after the first word of the command's output.
MaxTail == 4

\* 'instance-id'
InstanceIdWord == <<"i", "n", "s", "t", "a", "n", "c", "e", "-", "i", "d">>

Whitespace == {" ", "\n"}
IdChars == {"i", "1"}
TailChars == Whitespace \cup IdChars \cup {":"}

\* What `ec2-metadata -i` can print: nothing or a word, then some text.
Outputs ==
    {lead \o word \o tail :
        lead \in {<<>>, <<" ">>},
        word \in {<<>>, InstanceIdWord, SubSeq(InstanceIdWord, 1, 8)},
        tail \in SeqsUpTo(TailChars, MaxTail)}

RECURSIVE lstrip(_)
lstrip(s) ==
    IF s # <<>> /\ Head(s) \in Whitespace THEN lstrip(Tail(s)) ELSE s

RECURSIVE rstrip(_)
rstrip(s) ==
    IF s # <<>> /\ s[Len(s)] \in Whitespace
    THEN rstrip(SubSeq(s, 1, Len(s) - 1))
    ELSE s

\* str.strip()
strip(s) == rstrip(lstrip(s))

\* str.startswith(prefix)
startswith(s, prefix) ==
    /\ Len(s) >= Len(prefix)
    /\ SubSeq(s, 1, Len(prefix)) = prefix

RECURSIVE split(_, _)
\* str.split(sep) with a one-character separator: the list of the pieces
\* between the separators, empty pieces included.
split(s, sep) ==
    IF \E j \in 1..Len(s) : s[j] = sep
    THEN LET j == CHOOSE k \in 1..Len(s) :
                      /\ s[k] = sep
                      /\ \A l \in 1..(k - 1) : s[l] # sep
         IN <<SubSeq(s, 1, j - 1)>> \o split(SubSeq(s, j + 1, Len(s)), sep)
    ELSE <<s>>

\* get_current_instance_id(), the command having printed output: what the
\* call does (kind "str": returns the string id; "None": returns None;
\* "IndexError": raises it) and how many error lines it printed.
get_current_instance_id(output) ==
    LET s == strip(output)
        words == split(s, " ")
    IN IF ~startswith(s, InstanceIdWord)
       THEN [kind |-> "None", id |-> <<>>, printed |-> 1]
       ELSE IF Len(words) < 2
       THEN [kind |-> "IndexError", id |-> <<>>, printed |-> 0]
       ELSE [kind |-> "str", id |-> words[2], printed |-> 0]

\* EC2Instance.for_current_host(): None for a None or empty instance id,
\* else an EC2Instance with the id.
for_current_host(output) ==
    LET got == get_current_instance_id(output)
    IN IF got.kind = "IndexError" THEN got
       ELSE IF got.kind = "None" \/ got.id = <<>>
       THEN [kind |-> "None", id |-> <<>>, printed |-> got.printed]
       ELSE [kind |-> "EC2Instance", id |-> got.id, printed |-> got.printed]

NoIdCall ==
    [op |-> "", output |-> <<>>, kind |-> "", id |-> <<>>, printed |-> 0]

IdCall(op, output, did) ==
    [op |-> op, output |-> output, kind |-> did.kind, id |-> did.id,
     printed |-> did.printed]

GetCurrentInstanceId ==
    /\ id_call.op = ""
    /\ \E output \in Outputs :
         id_call' = IdCall("get_current_instance_id", output,
                           get_current_instance_id(output))
    /\ UNCHANGED <<roleVars, lbVars, tagVars>>

ForCurrentHost ==
    /\ id_call.op = ""
    /\ \E output \in Outputs :
         id_call' = IdCall("for_current_host", output,
                           for_current_host(output))
    /\ UNCHANGED <<roleVars, lbVars, tagVars>>

IdentityNext == GetCurrentInstanceId \/ ForCurrentHost

(***************************************************************************)
(* fabazon/elb.py: BaseLoadBalancer and LoadBalancerV2                     *)
(***************************************************************************)
InstanceIds == {"i-1", "i-2"}
\* TargetHealth['State'] and TargetHealth.get('Reason'); NoReason stands
\* for a missing 'Reason' key.
HealthStates == {"healthy", "unhealthy", "unused"}
NoReason == "<missing>"
Reasons == {NoReason, "", "Target.NotRegistered", "Target.Timeout"}
TargetHealths == [State : HealthStates, Reason : Reasons]
TargetHealthDescriptions ==
    SeqsUpTo([Target : [Id : InstanceIds], TargetHealth : TargetHealths],
             MaxDescriptions)
\* What one describe_target_health call does: it returns or it raises.
HealthCalls ==
    {[raises |-> TRUE, rsp |-> <<>>]}
    \cup {[raises |-> FALSE, rsp |-> rsp] : rsp \in TargetHealthDescriptions}

NoHealth == [State |-> "", Reason |-> ""]

\* range(60) of wait_until_instance_healthy
HealthyAttempts == 60
\* range(60) of wait_until_instance_removed
RemovedAttempts == 60

\* A changed _get_instance_health_info: the assertion on the target id is
\* left out.
GetInstanceHealthInfoNoIdCheck(call, id) ==
    IF call.raises
    THEN [raises |-> "ClientError", health_info |-> NoHealth]
    ELSE IF Len(call.rsp) # 1
    THEN [raises |-> "AssertionError", health_info |-> NoHealth]
    ELSE [raises |-> "", health_info |-> call.rsp[1].TargetHealth]

\* LoadBalancerV2._get_instance_health_info
\* raises names the exception that ends the call, "" when it returns.
_get_instance_health_info(call, id) ==
    IF call.raises
    THEN [raises |-> "ClientError", health_info |-> NoHealth]
    ELSE IF Len(call.rsp) # 1
    THEN [raises |-> "AssertionError", health_info |-> NoHealth]
    ELSE IF call.rsp[1].Target.Id # id
    THEN [raises |-> "AssertionError", health_info |-> NoHealth]
    ELSE [raises |-> "", health_info |-> call.rsp[1].TargetHealth]

\* A changed RegisteredTest: registration read off the state.
RegisteredTestByState(health_info) == health_info.State # "unused"

\* The comparison is_instance_registered returns.
RegisteredTest(health_info) == health_info.Reason # "Target.NotRegistered"

\* A changed HealthyTest: an unregistered target is never healthy.
HealthyTestOfRegistered(health_info) ==
    /\ health_info.State = "healthy"
    /\ health_info.Reason # "Target.NotRegistered"

\* The comparison is_instance_healthy returns.
HealthyTest(health_info) == health_info.State = "healthy"

PyBool(b) == IF b THEN "True" ELSE "False"

\* LoadBalancerV2.is_instance_registered
is_instance_registered(call, id) ==
    LET got == _get_instance_health_info(call, id)
    IN IF got.raises # "" THEN got.raises
       ELSE PyBool(RegisteredTest(got.health_info))

\* LoadBalancerV2.is_instance_healthy
is_instance_healthy(call, id) ==
    LET got == _get_instance_health_info(call, id)
    IN IF got.raises # "" THEN got.raises
       ELSE PyBool(HealthyTest(got.health_info))

\* History: what a describe_target_health call did, as far as the wait
\* loops and the queries can tell responses apart.
Seen(call) ==
    [returned |-> ~call.raises,
     n |-> Len(call.rsp),
     id |-> IF Len(call.rsp) > 0 THEN call.rsp[1].Target.Id ELSE "",
     health |-> IF Len(call.rsp) > 0 THEN call.rsp[1].TargetHealth
                ELSE NoHealth]

NothingSeen == [returned |-> FALSE, n |-> 0, id |-> "", health |-> NoHealth]

TargetGroupArns == {"arn:tg-a", "arn:tg-b"}

Operations ==
    {"register_targets", "deregister_targets", "describe_target_health"}

\* self._cnx.register_targets(TargetGroupArn=..., Targets=[{'Id': ...}])
RegisterRequest(arn, id) ==
    [api |-> "register_targets", TargetGroupArn |-> arn,
     Targets |-> <<[Id |-> id]>>]

\* A changed DeregisterRequest: the body of register_instance copied.
DeregisterRequestCopied(arn, id) ==
    [api |-> "register_targets", TargetGroupArn |-> arn,
     Targets |-> <<[Id |-> id]>>]

\* self._cnx.deregister_targets(TargetGroupArn=..., Targets=[{'Id': ...}])
DeregisterRequest(arn, id) ==
    [api |-> "deregister_targets", TargetGroupArn |-> arn,
     Targets |-> <<[Id |-> id]>>]

\* self._cnx.describe_target_health(TargetGroupArn=..., Targets=[...])
HealthRequest(arn, id) ==
    [api |-> "describe_target_health", TargetGroupArn |-> arn,
     Targets |-> <<[Id |-> id]>>]

NoRequest == [api |-> "", TargetGroupArn |-> "", Targets |-> <<>>]

\* The request is handed to boto3.
Send(request) ==
    /\ sent' = [sent EXCEPT ![request.api] = @ + 1]
    /\ last_request' = request

\* What a request that AWS accepted does to the target group.
Applied(request, registered) ==
    LET ids == {request.Targets[j].Id : j \in 1..Len(request.Targets)}
    IN IF request.api = "register_targets" THEN registered \cup ids
       ELSE IF request.api = "deregister_targets" THEN registered \ ids
       ELSE registered

\* LoadBalancerV2.__init__ for a target group with some instances
\* registered.
LBConstruct(arn, registered) ==
    /\ target_group_arn = arn
    /\ targets = registered
    /\ sent = [api \in Operations |-> 0]
    /\ last_request = NoRequest
    /\ lb_op = "none"
    /\ lb_pc = "idle"
    /\ instance = ""
    /\ i = 0
    /\ polls = 0
    /\ sleeps = 0
    /\ slept = 0
    /\ warnings = 0
    /\ trues = 0
    /\ falses = 0
    /\ seen = NothingSeen
    /\ lb_result = "None"

LBInit ==
    \E arn \in TargetGroupArns, registered \in SUBSET InstanceIds :
        LBConstruct(arn, registered)

\* One load balancer, for the specifications about something else.
LBQuiet == LBConstruct("arn:tg-a", {"i-1"})

\* A call of one of the wait methods starts: the for loop is entered.
Enter(op, id) ==
    /\ lb_op' = op
    /\ lb_pc' = "poll"
    /\ instance' = id
    /\ i' = 0
    /\ UNCHANGED <<polls, sleeps, slept, warnings, trues, falses, seen>>
    /\ UNCHANGED lb_result
    /\ UNCHANGED <<target_group_arn, targets, sent, last_request>>
    /\ UNCHANGED <<roleVars, tagVars, idVars>>

\* wait_until_instance_healthy(instance) is called.
WaitUntilInstanceHealthy(id) ==
    /\ lb_pc = "idle"
    /\ Enter("wait_until_instance_healthy", id)

\* wait_until_instance_removed(instance) is called.
WaitUntilInstanceRemoved(id) ==
    /\ lb_pc = "idle"
    /\ Enter("wait_until_instance_removed", id)

\* One evaluation of a loop's if statement, given what the is_instance_*
\* call answered and whether that answer takes the "return True" branch.
\* An exception leaves the method.
Poll(answer, succeeds, call) ==
    /\ polls' = polls + 1
    /\ trues' = IF answer = "True" THEN trues + 1 ELSE trues
    /\ falses' = IF answer = "False" THEN falses + 1 ELSE falses
    /\ seen' = Seen(call)
    /\ Send(HealthRequest(target_group_arn, instance))
    /\ UNCHANGED <<target_group_arn, targets>>
    /\ IF answer \notin {"True", "False"}
       THEN lb_pc' = "done" /\ lb_result' = answer
       ELSE IF succeeds
       THEN lb_pc' = "done" /\ lb_result' = "True"
       ELSE lb_pc' = "sleep" /\ UNCHANGED lb_result
    /\ UNCHANGED <<lb_op, instance, i, sleeps, slept, warnings>>
    /\ UNCHANGED <<roleVars, tagVars, idVars>>

\* A changed HealthyBranch: the condition negated.
HealthyBranchNegated(answer) == answer = "False"

\* if self.is_instance_healthy(instance): return True
HealthyBranch(answer) == answer = "True"

\* A changed RemovedBranch: the "not" left out.
RemovedBranchNotMissing(answer) == answer = "True"

\* if not self.is_instance_registered(instance): return True
RemovedBranch(answer) == answer = "False"

PollHealthy ==
    /\ lb_pc = "poll"
    /\ lb_op = "wait_until_instance_healthy"
    /\ \E call \in HealthCalls :
         LET answer == is_instance_healthy(call, instance)
         IN Poll(answer, HealthyBranch(answer), call)

PollRegistered ==
    /\ lb_pc = "poll"
    /\ lb_op = "wait_until_instance_removed"
    /\ \E call \in HealthCalls :
         LET answer == is_instance_registered(call, instance)
         IN Poll(answer, RemovedBranch(answer), call)

\* A changed Attempts: one iteration short.
AttemptsOneShort(op) ==
    IF op = "wait_until_instance_healthy"
    THEN HealthyAttempts - 1
    ELSE RemovedAttempts - 1

\* A changed Attempts: one iteration more.
AttemptsOneMore(op) ==
    IF op = "wait_until_instance_healthy"
    THEN HealthyAttempts + 1
    ELSE RemovedAttempts + 1

\* The number of iterations of the for loop of a wait.
Attempts(op) ==
    IF op = "wait_until_instance_healthy"
    THEN HealthyAttempts
    ELSE RemovedAttempts

\* time.sleep(1)
SleepSeconds == 1

\* A changed Sleep: no sleep after the poll of the last iteration.
SleepUnlessLast ==
    /\ lb_pc = "sleep"
    /\ sleeps' = IF i + 1 < Attempts(lb_op) THEN sleeps + 1 ELSE sleeps
    /\ slept' = IF i + 1 < Attempts(lb_op) THEN slept + SleepSeconds
                ELSE slept
    /\ i' = i + 1
    /\ lb_pc' = IF i + 1 < Attempts(lb_op) THEN "poll" ELSE "timeout"
    /\ seen' = NothingSeen
    /\ UNCHANGED <<lb_op, instance, polls, warnings, trues, falses, lb_result>>
    /\ UNCHANGED <<target_group_arn, targets, sent, last_request>>
    /\ UNCHANGED <<roleVars, tagVars, idVars>>

\* time.sleep(1), then the next iteration of the for loop, or its end.
\* The response of the finished iteration is dropped.
Sleep ==
    /\ lb_pc = "sleep"
    /\ sleeps' = sleeps + 1
    /\ slept' = slept + SleepSeconds
    /\ i' = i + 1
    /\ lb_pc' = IF i + 1 < Attempts(lb_op) THEN "poll" ELSE "timeout"
    /\ seen' = NothingSeen
    /\ UNCHANGED <<lb_op, instance, polls, warnings, trues, falses, lb_result>>
    /\ UNCHANGED <<target_group_arn, targets, sent, last_request>>
    /\ UNCHANGED <<roleVars, tagVars, idVars>>

\* print(red(...)); return False
TimedOut ==
    /\ lb_pc = "timeout"
    /\ warnings' = warnings + 1
    /\ lb_result' = "False"
    /\ lb_pc' = "done"
    /\ UNCHANGED <<lb_op, instance, i, polls, sleeps, slept, trues, falses, seen>>
    /\ UNCHANGED <<target_group_arn, targets, sent, last_request>>
    /\ UNCHANGED <<roleVars, tagVars, idVars>>

\* A whole call of is_instance_registered or is_instance_healthy.
Query(op, id, answer, call) ==
    /\ lb_op' = op
    /\ lb_pc' = "done"
    /\ instance' = id
    /\ polls' = polls + 1
    /\ trues' = IF answer = "True" THEN trues + 1 ELSE trues
    /\ falses' = IF answer = "False" THEN falses + 1 ELSE falses
    /\ seen' = Seen(call)
    /\ lb_result' = answer
    /\ Send(HealthRequest(target_group_arn, id))
    /\ UNCHANGED <<target_group_arn, targets>>
    /\ UNCHANGED <<i, sleeps, slept, warnings>>
    /\ UNCHANGED <<roleVars, tagVars, idVars>>

IsInstanceRegistered(id) ==
    /\ lb_pc = "idle"
    /\ \E call \in HealthCalls :
         Query("is_instance_registered", id,
               is_instance_registered(call, id), call)

IsInstanceHealthy(id) ==
    /\ lb_pc = "idle"
    /\ \E call \in HealthCalls :
         Query("is_instance_healthy", id,
               is_instance_healthy(call, id), call)

\* A whole call of register_instance or unregister_instance: one request,
\* which AWS accepts (the method returns None) or refuses (boto3 raises).
Change(op, id, request) ==
    /\ lb_op' = op
    /\ lb_pc' = "done"
    /\ instance' = id
    /\ Send(request)
    /\ \E raises \in BOOLEAN :
         /\ lb_result' = IF raises THEN "ClientError" ELSE "None"
         /\ targets' = IF raises THEN targets ELSE Applied(request, targets)
    /\ UNCHANGED <<i, polls, sleeps, slept, warnings, trues, falses, seen>>
    /\ UNCHANGED target_group_arn
    /\ UNCHANGED <<roleVars, tagVars, idVars>>

\* LoadBalancerV2.register_instance(instance)
RegisterInstance(id) ==
    /\ lb_pc = "idle"
    /\ Change("register_instance", id,
              RegisterRequest(target_group_arn, id))

\* LoadBalancerV2.unregister_instance(instance)
UnregisterInstance(id) ==
    /\ lb_pc = "idle"
    /\ Change("unregister_instance", id,
              DeregisterRequest(target_group_arn, id))

LBNext ==
    \/ \E id \in InstanceIds : RegisterInstance(id)
    \/ \E id \in InstanceIds : UnregisterInstance(id)
    \/ \E id \in InstanceIds : WaitUntilInstanceHealthy(id)
    \/ \E id \in InstanceIds : WaitUntilInstanceRemoved(id)
    \/ PollHealthy
    \/ PollRegistered
    \/ Sleep
    \/ TimedOut
    \/ \E id \in InstanceIds : IsInstanceRegistered(id)
    \/ \E id \in InstanceIds : IsInstanceHealthy(id)

(***************************************************************************)
(* Specifications                                                          *)
(***************************************************************************)
\* No function outside the resolver and the load balancer was called yet.
NothingCalled ==
    /\ tm_call = NoCall
    /\ id_call = NoIdCall

Init == RolesInit /\ LBInit /\ NothingCalled

Next == RolesNext \/ TagsNext \/ IdentityNext \/ LBNext

Spec == Init /\ [][Next]_vars

\* The role resolver alone: no load balancer call is made.
RolesAloneInit == RolesInit /\ LBQuiet /\ NothingCalled

SpecRoles == RolesAloneInit /\ [][RolesNext]_vars

\* The load balancer alone, next to one resolver that is never used.
LBAloneInit ==
    /\ Construct(<<"us-east-1">>, <<"web">>, "role", EmptyDict, FALSE)
    /\ LBInit
    /\ NothingCalled

SpecLB == LBAloneInit /\ [][LBNext]_vars

\* The load balancer with a caller whose thread keeps running: a health
\* request answers or raises, time.sleep(1) returns, and the statement
\* after the loop is executed.
LBFairInit ==
    /\ Construct(<<"us-east-1">>, <<"web">>, "role", EmptyDict, FALSE)
    /\ LBQuiet
    /\ NothingCalled

SpecLBFair ==
    /\ LBFairInit
    /\ [][LBNext]_vars
    /\ WF_vars(PollHealthy)
    /\ WF_vars(PollRegistered)
    /\ WF_vars(Sleep)
    /\ WF_vars(TimedOut)

\* The tag manager alone: one resolver per region list, never looked up.
TagsAloneInit ==
    /\ \E regionList \in RegionLists :
         Construct(regionList, <<"web">>, "role", EmptyDict, FALSE)
    /\ LBQuiet
    /\ NothingCalled

SpecTags == TagsAloneInit /\ [][TagsNext]_vars

\* The instance identity functions alone.
SpecIdentity == LBFairInit /\ [][IdentityNext]_vars

(***************************************************************************)
(* Properties of the role resolver (checked under SpecRoles)               *)
(***************************************************************************)
\* The role names given to the constructor.
SeededRoles == {roles[j] : j \in 1..Len(roles)}

\* C1: for every pre-seeded role the first lookup issues exactly one tag
\* query, every later lookup of the role issues none and returns the cached
\* sequence, so at most one tag query is ever issued for the role.
C1_OneQueryPerRole ==
    \A r \in SeededRoles :
        /\ lookups[r] >= 1 => queries[r] = 1
        /\ queries[r] <= 1
        /\ (lookups[r] >= 2 /\ outcome.role = r) =>
              /\ ~query.issued
              /\ outcome.kind = "return"
              /\ outcome.value = cache[r]

C3_EmptyResultCached ==
    [][\A r \in SeededRoles :
        /\ ( /\ lookups'[r] = lookups[r] + 1
             /\ query'.issued
             /\ outcome'.kind = "return"
             /\ outcome'.value.hosts = <<>> )
           => (cache'[r] = Resolved(<<>>) /\ cache'[r] # None)
        /\ (r \in DOMAIN cache /\ cache[r] = Resolved(<<>>))
           => /\ cache'[r] = Resolved(<<>>)
              /\ queries'[r] = queries[r]
              /\ lookups'[r] = lookups[r] + 1
                 => /\ ~query'.issued
                    /\ outcome'.kind = "return"
                    /\ outcome'.value = Resolved(<<>>)]_vars

\* C3 witness: a role whose query returned nothing was looked up a second
\* time; one query was issued in all.
C3_Witness ==
    \E r \in SeededRoles :
        /\ cache[r] = Resolved(<<>>)
        /\ lookups[r] = 2
        /\ queries[r] = 1
        /\ outcome = [kind |-> "return", role |-> r,
                      value |-> Resolved(<<>>)]
        /\ ~query.issued

\* C4: with use_ssm set the first lookup of a pre-seeded role asks the tag
\* manager for instance ids, without it for hostnames, and in both settings
\* the lookup returns with the role's entry resolved (unless boto3 raised).
C4_FlagSelectsResult ==
    \A r \in SeededRoles :
        (outcome.role = r /\ outcome.kind # "ClientError") =>
            /\ outcome.kind = "return"
            /\ cache[r].resolved
            /\ outcome.value = cache[r]
            /\ query.issued =>
                 query.method = IF use_ssm THEN "get_tagged_instance_ids"
                                ELSE "get_tagged_hostnames"

\* C5: the tags passed to the tag query of a lookup of role r hold every
\* pair of require_tags and map role_tag to r, also when require_tags has
\* the key role_tag.
C5_FilterCombinesRoleAndRequired ==
    query.issued =>
        /\ \A key \in DOMAIN require_tags :
              /\ key \in DOMAIN query.tags
              /\ query.tags[key] = require_tags[key]
        /\ role_tag \in DOMAIN query.tags
        /\ query.tags[role_tag] = outcome.role

(***************************************************************************)
(* Properties of the load balancer (checked under SpecLB)                  *)
(***************************************************************************)
\* The response holds exactly one description, and it is the instance's.
ExactlyOneMatch(s, id) == s.returned /\ s.n = 1 /\ s.id = id

\* C6: wait_until_instance_healthy returns True at the first poll k, with
\* 1 <= k <= 60, at which is_instance_healthy answers True, after exactly k
\* polls (k - 1 answers False before it) and polls no more.
C6_TrueAtFirstHealthyPoll ==
    lb_op = "wait_until_instance_healthy" =>
        /\ trues <= 1
        /\ trues = 1 =>
              /\ lb_pc = "done"
              /\ lb_result = "True"
              /\ polls = falses + 1
              /\ polls \in 1..60
        /\ lb_result = "True" => trues = 1

\* C6 witness: polls 1 to 59 answered False, poll 60 True, and the wait
\* returned True after 60 polls.
C6_Witness ==
    /\ lb_op = "wait_until_instance_healthy"
    /\ lb_pc = "done"
    /\ lb_result = "True"
    /\ polls = 60
    /\ falses = 59

\* C7: when every poll answers not healthy, wait_until_instance_healthy
\* polls exactly 60 times, prints a warning and returns False; False is
\* returned in no other case, and a timeout raises nothing.
C7_FalseAfterSixtyPolls ==
    lb_op = "wait_until_instance_healthy" =>
        /\ polls <= 60
        /\ (lb_pc = "done" /\ trues = 0 /\ falses = polls) =>
              /\ lb_result = "False"
              /\ polls = 60
              /\ warnings = 1
        /\ lb_result = "False" =>
              /\ lb_pc = "done"
              /\ polls = 60
              /\ falses = 60
              /\ warnings = 1

\* C7 witness: the wait timed out.
C7_Witness ==
    /\ lb_op = "wait_until_instance_healthy"
    /\ lb_pc = "done"
    /\ lb_result = "False"
    /\ falses = 60
    /\ warnings = 1

\* C8: wait_until_instance_removed polls is_instance_registered; it returns
\* True at the first poll k, 1 <= k <= 60, that answers False, after
\* exactly k polls, and returns False after exactly 60 polls when every
\* poll answers True.
C8_RemovedWaitSymmetric ==
    lb_op = "wait_until_instance_removed" =>
        /\ polls <= 60
        /\ falses <= 1
        /\ falses = 1 =>
              /\ lb_pc = "done"
              /\ lb_result = "True"
              /\ polls = trues + 1
              /\ polls \in 1..60
        /\ lb_result = "True" => falses = 1
        /\ (lb_pc = "done" /\ falses = 0 /\ trues = polls) =>
              /\ lb_result = "False"
              /\ polls = 60
        /\ lb_result = "False" =>
              /\ lb_pc = "done"
              /\ polls = 60
              /\ trues = 60

\* C8 witness: the instance was reported registered 59 times and removed at
\* poll 60.
C8_Witness ==
    /\ lb_op = "wait_until_instance_removed"
    /\ lb_pc = "done"
    /\ lb_result = "True"
    /\ polls = 60
    /\ trues = 59

\* C9: on a response with exactly one description, of the queried instance,
\* is_instance_registered returns a boolean, and it returns False exactly
\* when the reason is "Target.NotRegistered"; an empty or a missing reason
\* gives True.
C9_RegisteredUnlessNotRegistered ==
    ( /\ lb_op = "is_instance_registered"
      /\ lb_pc = "done"
      /\ ExactlyOneMatch(seen, instance) ) =>
        /\ lb_result \in {"True", "False"}
        /\ lb_result = "False" <=> seen.health.Reason = "Target.NotRegistered"

\* C9 witness: the reason key is missing and the answer is True.
C9_Witness ==
    /\ lb_op = "is_instance_registered"
    /\ lb_pc = "done"
    /\ ExactlyOneMatch(seen, instance)
    /\ seen.health.Reason = NoReason
    /\ lb_result = "True"

\* C10: a response that does not hold exactly one description, of the
\* queried instance, ends is_instance_registered, is_instance_healthy and
\* both waits in AssertionError: no boolean is returned and nothing is
\* polled after it.
C10_MalformedResponseIsFatal ==
    lb_op # "none" =>
        /\ (seen.returned /\ ~ExactlyOneMatch(seen, instance)) =>
              /\ lb_pc = "done"
              /\ lb_result = "AssertionError"
        /\ lb_result = "AssertionError" =>
              /\ lb_pc = "done"
              /\ seen.returned
              /\ ~ExactlyOneMatch(seen, instance)
              /\ polls = trues + falses + 1

\* C10 witness: the third poll of a wait got the description of another
\* instance and the wait ended in AssertionError.
C10_Witness ==
    /\ lb_op = "wait_until_instance_healthy"
    /\ lb_result = "AssertionError"
    /\ polls = 3
    /\ falses = 2
    /\ seen.n = 1
    /\ seen.id # instance

\* C11: when boto3 raises during the tag query of a seeded, unresolved role
\* the lookup ends with that exception, exactly one query was issued for
\* it, and the cache is as before (the role still None); and a lookup of a
\* role that is still None after a query issues a query again.
C11_RaisedQueryLeavesRoleUnresolved ==
    [][\A r \in SeededRoles :
        /\ ( /\ lookups'[r] = lookups[r] + 1
             /\ query'.issued
             /\ query'.raised )
           => /\ outcome' = [kind |-> "ClientError", role |-> r,
                             value |-> None]
              /\ queries'[r] = queries[r] + 1
              /\ cache' = cache
              /\ cache'[r] = None
        /\ ( /\ lookups'[r] = lookups[r] + 1
             /\ queries[r] >= 1
             /\ cache[r] = None )
           => /\ query'.issued
              /\ queries'[r] = queries[r] + 1]_vars

\* C11 witness: the first lookup of a role raised in the query, the second
\* lookup queried again and resolved the role.
C11_Witness ==
    \E r \in SeededRoles :
        /\ lookups[r] = 2
        /\ queries[r] = 2
        /\ query.issued /\ ~query.raised
        /\ outcome.kind = "return"
        /\ cache[r] = Resolved(<<"h1">>)

RECURSIVE ConcatOver(_, _)
\* The concatenation of matches[rg] for the regions rg of a list, in the
\* list's order.
ConcatOver(regionList, matches) ==
    IF regionList = <<>> THEN <<>>
    ELSE matches[Head(regionList)] \o ConcatOver(Tail(regionList), matches)

RECURSIVE CountOver(_, _)
\* The sum of the match counts of the regions of a list.
CountOver(regionList, matches) ==
    IF regionList = <<>> THEN 0
    ELSE Len(matches[Head(regionList)]) + CountOver(Tail(regionList), matches)

\* The regions of a list without repetitions, each at the place where it
\* first occurs.
FirstOccurrences(regionList) ==
    LET first == {j \in 1..Len(regionList) :
                     \A k \in 1..(j - 1) : regionList[k] # regionList[j]}
        nth[n \in 1..Cardinality(first)] ==
            CHOOSE j \in first : Cardinality({k \in first : k < j}) = n - 1
    IN [n \in 1..Cardinality(first) |-> regionList[nth[n]]]

\* C12 as stated: a get_tagged_hostnames call that returns gives the
\* concatenation of the regions' matching hostnames over the regions list
\* given at construction, in the list's order, and as many hostnames as the
\* sum of the match counts over that list.
C12_ConcatenationOverRegionsList ==
    (tm_call.called /\ ~tm_call.raises)
        => /\ tm_call.hostnames = ConcatOver(regions, tm_call.matches)
           /\ Len(tm_call.hostnames) = CountOver(regions, tm_call.matches)

\* C12 amended: a get_tagged_hostnames call that returns gives the
\* concatenation of the matching hostnames of the distinct regions of the
\* list, in the order of their first occurrence, every match appended and
\* none removed: as many hostnames as the sum of the match counts over the
\* distinct regions.
C12_ConcatenationOverDistinctRegions ==
    (tm_call.called /\ ~tm_call.raises)
        => /\ tm_call.hostnames =
                 ConcatOver(FirstOccurrences(regions), tm_call.matches)
           /\ Len(tm_call.hostnames) =
                 CountOver(FirstOccurrences(regions), tm_call.matches)

\* C12 witness: two regions each report a stopped instance with the same
\* hostname to a call without running_only; the result has it twice.
C12_Witness ==
    /\ tm_call.called /\ ~tm_call.raises
    /\ ~tm_call.running_only
    /\ regions = <<"us-east-1", "us-west-2">>
    /\ tm_call.matches["us-east-1"] = <<"h2">>
    /\ tm_call.matches["us-west-2"] = <<"h1">>
    /\ tm_call.hostnames = <<"h2", "h1">>

\* An output of the form 'instance-id <id>' on one line, surrounding
\* whitespace aside.
WellFormedOutput(output) ==
    \E id \in SeqsUpTo(IdChars, MaxTail) :
        id # <<>> /\ strip(output) = InstanceIdWord \o <<" ">> \o id

\* C13: get_current_instance_id returns the id for an output of the form
\* 'instance-id <id>'; for every other output it prints an error and
\* returns None without raising, and for_current_host returns None.
C13_IdOrNone ==
    id_call.op # ""
        => IF WellFormedOutput(id_call.output)
           THEN /\ id_call.kind \in {"str", "EC2Instance"}
                /\ strip(id_call.output) =
                       InstanceIdWord \o <<" ">> \o id_call.id
           ELSE /\ id_call.kind = "None"
                /\ id_call.printed = 1

WaitOps == {"wait_until_instance_healthy", "wait_until_instance_removed"}

\* C14 as stated: a wait that has ended returned True or False.
C14_TwoEnds ==
    (lb_op \in WaitOps /\ lb_pc = "done") => lb_result \in {"True", "False"}

\* C14 amended: a wait that was started ends, after at most 60 polls, in
\* one of three ways: True, False after the 60th poll, or the exception
\* that a health query raised.
C14_ThreeEnds ==
    /\ [](lb_op \in WaitOps
            => /\ polls <= 60
               /\ lb_pc = "done"
                    => /\ lb_result \in {"True", "False",
                                          "AssertionError", "ClientError"}
                       /\ lb_result = "False" => polls = 60)
    /\ (lb_op \in WaitOps) ~> (lb_pc = "done")

\* C14 witness: a wait for removal ended with the exception of its 60th
\* health query.
C14_Witness ==
    /\ lb_op = "wait_until_instance_removed"
    /\ lb_pc = "done"
    /\ lb_result = "ClientError"
    /\ polls = 60
    /\ sleeps = 59

\* C15: register_instance and unregister_instance send exactly one
\* register_targets, respectively deregister_targets, request for the
\* instance and the configured target group, send no health request and
\* are over with that request; the waits and the is_instance_* queries
\* send health requests only and leave the target group as it is.
C15_ChangesAndQueriesApart ==
    [][/\ (lb_pc = "idle" /\ lb_op' = "register_instance")
          => /\ sent' = [sent EXCEPT !["register_targets"] = @ + 1]
             /\ last_request' =
                   [api |-> "register_targets",
                    TargetGroupArn |-> target_group_arn,
                    Targets |-> <<[Id |-> instance']>>]
             /\ lb_pc' = "done"
             /\ polls' = polls /\ sleeps' = sleeps
       /\ (lb_pc = "idle" /\ lb_op' = "unregister_instance")
          => /\ sent' = [sent EXCEPT !["deregister_targets"] = @ + 1]
             /\ last_request' =
                   [api |-> "deregister_targets",
                    TargetGroupArn |-> target_group_arn,
                    Targets |-> <<[Id |-> instance']>>]
             /\ lb_pc' = "done"
             /\ polls' = polls /\ sleeps' = sleeps
       /\ lb_op' \in WaitOps \cup {"is_instance_registered",
                                   "is_instance_healthy"}
          => /\ sent'["register_targets"] = 0
             /\ sent'["deregister_targets"] = 0
             /\ sent'["describe_target_health"] = polls'
             /\ targets' = targets]_vars

\* C15 witness: unregister_instance took one of two registered instances
\* out of the target group with one request and no health request.
C15_Witness ==
    /\ lb_op = "unregister_instance"
    /\ lb_pc = "done"
    /\ lb_result = "None"
    /\ instance = "i-2"
    /\ targets = {"i-1"}
    /\ sent = [api \in Operations |->
                 IF api = "deregister_targets" THEN 1 ELSE 0]
    /\ polls = 0

\* C16: after construction the cache holds exactly the roles of the roles
\* list, each None; lookups never change the cache's keys; a lookup of a
\* role changes at most that role's entry, from None to a resolved list;
\* and a resolved entry stays as it is.
C16_CacheKeysAndEntries ==
    /\ DOMAIN cache = SeededRoles
    /\ \A r \in SeededRoles : cache[r] = None
    /\ [](DOMAIN cache = SeededRoles)
    /\ [][\A r \in RoleNames :
            lookups'[r] = lookups[r] + 1
                => /\ \A o \in SeededRoles \ {r} : cache'[o] = cache[o]
                   /\ r \in SeededRoles
                        => \/ cache'[r] = cache[r]
                           \/ cache[r] = None /\ cache'[r].resolved
                   /\ \A o \in SeededRoles :
                        cache[o].resolved => cache'[o] = cache[o]]_vars

\* C16 witness: of two seeded roles one was resolved by its lookup and the
\* other is still None.
C16_Witness ==
    /\ roles = <<"web", "db">>
    /\ DOMAIN cache = {"web", "db"}
    /\ lookups["db"] = 1
    /\ lookups["web"] = 0
    /\ cache["db"] = Resolved(<<"h2">>)
    /\ cache["web"] = None

\* C17: in a wait, polls and sleeps alternate: after each poll that did not
\* end the wait comes one sleep of 1 second, then the next poll or the end
\* of the loop.  A wait that returned True at poll k slept k - 1 times; a
\* wait that returned False made 60 polls and 60 sleeps.
C17_PollsAndSleepsAlternate ==
    /\ [](lb_op \in WaitOps
            => /\ slept = sleeps * 1
               /\ lb_pc = "poll" => (sleeps = polls /\ polls < 60)
               /\ lb_pc = "sleep" => sleeps = polls - 1
               /\ lb_pc = "timeout" => (polls = 60 /\ sleeps = 60)
               /\ (lb_pc = "done" /\ lb_result = "True")
                    => sleeps = polls - 1
               /\ (lb_pc = "done" /\ lb_result = "False")
                    => (polls = 60 /\ sleeps = 60))
    /\ [][/\ sleeps' # sleeps
              => /\ lb_pc = "sleep"
                 /\ sleeps' = sleeps + 1
                 /\ polls' = polls
                 /\ lb_pc' \in {"poll", "timeout"}
          /\ (lb_op \in WaitOps /\ polls' # polls)
              => /\ lb_pc = "poll"
                 /\ polls' = polls + 1
                 /\ sleeps' = sleeps
                 /\ lb_pc' \in {"sleep", "done"}
                 /\ lb_pc' = "sleep" <=> (falses' + trues' = polls'
                                           /\ lb_result' # "True")]_vars

\* C17 witness: a wait for removal timed out after 60 polls and 60 sleeps
\* of one second.
C17_Witness ==
    /\ lb_op = "wait_until_instance_removed"
    /\ lb_pc = "done"
    /\ lb_result = "False"
    /\ polls = 60
    /\ sleeps = 60
    /\ slept = 60

\* The response a call was looking at, as describe_target_health gave it.
CallOf(s) ==
    [raises |-> ~s.returned,
     rsp |-> IF s.n = 1
             THEN <<[Target |-> [Id |-> s.id], TargetHealth |-> s.health]>>
             ELSE <<>>]

\* C18 as stated: on any response with exactly one description, of the
\* queried instance, is_instance_healthy True implies
\* is_instance_registered True.
C18_HealthyImpliesRegistered ==
    ( /\ lb_op = "is_instance_healthy"
      /\ lb_pc = "done"
      /\ ExactlyOneMatch(seen, instance)
      /\ lb_result = "True" )
        => is_instance_registered(CallOf(seen), instance) = "True"

\* C18 amended: on such a response is_instance_healthy is True exactly for
\* the state "healthy" and is_instance_registered is False exactly for
\* the reason "Target.NotRegistered", each whatever the other field holds;
\* healthy implies registered on the responses whose reason is not
\* "Target.NotRegistered" when the state is "healthy", and on the others
\* the instance is reported healthy and not registered.
C18_StateAndReasonTestedApart ==
    ( /\ lb_op = "is_instance_healthy"
      /\ lb_pc = "done"
      /\ ExactlyOneMatch(seen, instance) )
        => LET registered == is_instance_registered(CallOf(seen), instance)
               contradictory ==
                   /\ seen.health.State = "healthy"
                   /\ seen.health.Reason = "Target.NotRegistered"
           IN /\ lb_result \in {"True", "False"}
              /\ registered \in {"True", "False"}
              /\ lb_result = "True" <=> seen.health.State = "healthy"
              /\ registered = "False"
                   <=> seen.health.Reason = "Target.NotRegistered"
              /\ ~contradictory
                   => (lb_result = "True" => registered = "True")
              /\ contradictory
                   => (lb_result = "True" /\ registered = "False")

\* C18 witness: is_instance_healthy answered True on a response with state
\* "healthy" and reason "Target.NotRegistered".
C18_Witness ==
    /\ lb_op = "is_instance_healthy"
    /\ lb_pc = "done"
    /\ ExactlyOneMatch(seen, instance)
    /\ seen.health = [State |-> "healthy", Reason |-> "Target.NotRegistered"]
    /\ lb_result = "True"
    /\ is_instance_registered(CallOf(seen), instance) = "False"

====
